---- MODULE Spec2Model ----
(***************************************************************************)
(* State-machine model of the question-pool parser (src/poolparse.py).     *)
(*                                                                         *)
(* A Python str is modelled as a sequence of one-character strings, so     *)
(* that the regular expressions, strip(), the hyphen repair and the        *)
(* whitespace collapse are computed character by character.  A Python      *)
(* Optional value (a regex match or None, an optional regex group) is a    *)
(* sequence of length 0 (None) or 1 (the value).  The cursor i is the      *)
(* source's 0-based index: lines[i] of the source is lines[i + 1] here.   *)
(* Input lines hold no line-break character: extract_pdf_lines splits on  *)
(* "\n" before parse_pool sees the text.                                   *)
(***************************************************************************)
EXTENDS Naturals, Sequences, FiniteSets

VARIABLES lines, i, qid, items, pc, rec, q_parts, choice_bufs, current,
          jprev, jnxt, jout,
          cline, cclass,
          stats, current_exam, state_file, rpc, submitted, dumped

pvars == <<lines, i, qid, items, pc, rec, q_parts, choice_bufs, current>>
jvars == <<jprev, jnxt, jout>>
cvars == <<cline, cclass>>
evars == <<stats, current_exam, state_file, rpc, submitted, dumped>>
vars  == <<lines, i, qid, items, pc, rec, q_parts, choice_bufs, current,
           jprev, jnxt, jout, cline, cclass,
           stats, current_exam, state_file, rpc, submitted, dumped>>

(***************************************************************************)
(* Characters and the str methods the parser uses.                         *)
(***************************************************************************)
Whitespace == {" ", "\t"}
Digit == {"0", "1", "2", "3", "4", "5", "6", "7", "8", "9"}
Upper == {"A", "B", "C", "D", "E", "F", "G", "H", "I", "J", "K", "L", "M",
          "N", "O", "P", "Q", "R", "S", "T", "U", "V", "W", "X", "Y", "Z"}
Lower == {"a", "b", "c", "d", "e", "f", "g", "h", "i", "j", "k", "l", "m",
          "n", "o", "p", "q", "r", "s", "t", "u", "v", "w", "x", "y", "z"}
AnswerLetter == {"A", "B", "C", "D"}

None == <<>>
Some(v) == <<v>>

IsSpace(c) == c \in Whitespace

MinOf(S) == CHOOSE x \in S : \A y \in S : x <= y
MaxOf(S) == CHOOSE x \in S : \A y \in S : y <= x

NonSpaceIdx(s) == {k \in 1..Len(s) : ~IsSpace(s[k])}

\* str.lstrip()
lstrip(s) ==
    IF NonSpaceIdx(s) = {} THEN <<>>
    ELSE SubSeq(s, MinOf(NonSpaceIdx(s)), Len(s))

\* str.strip()
strip(s) ==
    IF NonSpaceIdx(s) = {} THEN <<>>
    ELSE SubSeq(s, MinOf(NonSpaceIdx(s)), MaxOf(NonSpaceIdx(s)))

\* str.endswith("-")
endswith_hyphen(s) == Len(s) >= 1 /\ s[Len(s)] = "-"

\* s[:1].islower()
first_islower(s) == Len(s) >= 1 /\ s[1] \in Lower

\* " ".join(parts)
RECURSIVE join_space(_)
join_space(parts) ==
    IF parts = <<>> THEN <<>>
    ELSE IF Len(parts) = 1 THEN parts[1]
    ELSE parts[1] \o <<" ">> \o join_space(Tail(parts))

\* the length of the whitespace run s starts with
RECURSIVE ws_run(_)
ws_run(s) ==
    IF s # <<>> /\ IsSpace(s[1]) THEN 1 + ws_run(Tail(s)) ELSE 0

\* mutation: the pattern is \s{2}, so a run is collapsed pair by pair
RECURSIVE sub_ws2_Pairs(_)
sub_ws2_Pairs(s) ==
    IF s = <<>> THEN <<>>
    ELSE IF ws_run(s) >= 2
         THEN <<" ">> \o sub_ws2_Pairs(SubSeq(s, 3, Len(s)))
         ELSE <<s[1]>> \o sub_ws2_Pairs(Tail(s))

\* re.sub(r"\s{2,}", " ", s)
RECURSIVE sub_ws2(_)
sub_ws2(s) ==
    IF s = <<>> THEN <<>>
    ELSE IF ws_run(s) >= 2
         THEN <<" ">> \o sub_ws2(SubSeq(s, ws_run(s) + 1, Len(s)))
         ELSE <<s[1]>> \o sub_ws2(Tail(s))

(***************************************************************************)
(* The three line patterns.                                                *)
(***************************************************************************)
\* Mutation of HEADER_RE_match: the bracketed citation is left in qstart.
HEADER_RE_match_KeepsCitation(line) ==
    LET s == lstrip(line)
        a == lstrip(SubSeq(s, 6, Len(s)))
        b == lstrip(SubSeq(a, 4, Len(a)))
    IN  IF /\ Len(s) >= 5
           /\ s[1] = "E"
           /\ s[2] \in Digit
           /\ s[3] \in Upper
           /\ s[4] \in Digit
           /\ s[5] \in Digit
           /\ Len(a) >= 3
           /\ a[1] = "("
           /\ a[2] \in AnswerLetter
           /\ a[3] = ")"
        THEN Some([subelement   |-> <<s[2]>>,
                   group_index  |-> <<s[3]>>,
                   group_number |-> <<s[4], s[5]>>,
                   answer       |-> <<a[2]>>,
                   qstart       |-> b])
        ELSE None

\* HEADER_RE.match(line): None, or the match's groupdict
HEADER_RE_match(line) ==
    LET s == lstrip(line)
        a == lstrip(SubSeq(s, 6, Len(s)))
        b == lstrip(SubSeq(a, 4, Len(a)))
        close == {k \in 2..Len(b) : b[k] = "]"}
        c == IF Len(b) >= 1 /\ b[1] = "[" /\ close # {}
             THEN lstrip(SubSeq(b, MinOf(close) + 1, Len(b)))
             ELSE b
    IN  IF /\ Len(s) >= 5
           /\ s[1] = "E"
           /\ s[2] \in Digit
           /\ s[3] \in Upper
           /\ s[4] \in Digit
           /\ s[5] \in Digit
           /\ Len(a) >= 3
           /\ a[1] = "("
           /\ a[2] \in AnswerLetter
           /\ a[3] = ")"
        THEN Some([subelement   |-> <<s[2]>>,
                   group_index  |-> <<s[3]>>,
                   group_number |-> <<s[4], s[5]>>,
                   answer       |-> <<a[2]>>,
                   qstart       |-> c])
        ELSE None

\* CHOICE_RE.match(line): None, or groups 1 and 2 (group 2 is optional)
CHOICE_RE_match(line) ==
    LET s == lstrip(line)
        rest == strip(SubSeq(s, 3, Len(s)))
    IN  IF Len(s) >= 2 /\ s[1] \in AnswerLetter /\ s[2] = "."
        THEN Some([group1 |-> s[1],
                   group2 |-> IF rest = <<>> THEN None ELSE Some(rest)])
        ELSE None

\* mutation: the separator pattern is searched for anywhere in the line
RECURSIVE SEP_RE_match_Search(_)
SEP_RE_match_Search(line) ==
    /\ Len(line) >= 2
    /\ \/ (line[1] = "~" /\ line[2] = "~")
       \/ SEP_RE_match_Search(Tail(line))

\* SEP_RE.match(line) is not None
SEP_RE_match(line) == strip(line) = <<"~", "~">>

(***************************************************************************)
(* dehyphen_join and clean.                                                *)
(***************************************************************************)
\* Mutation of dehyphen_join: always a space join, no hyphen repair.
dehyphen_join_NoRepair(prev, nxt) ==
    strip(prev \o <<" ">> \o strip(nxt))

\* Mutation of dehyphen_join: the repair ignores the case of the next fragment.
dehyphen_join_AnyCase(prev, nxt) ==
    IF endswith_hyphen(prev) /\ nxt # <<>> /\ ~IsSpace(nxt[1])
    THEN SubSeq(prev, 1, Len(prev) - 1) \o lstrip(nxt)
    ELSE strip(prev \o <<" ">> \o strip(nxt))

dehyphen_join(prev, nxt) ==
    IF endswith_hyphen(prev) /\ first_islower(nxt)
    THEN SubSeq(prev, 1, Len(prev) - 1) \o lstrip(nxt)
    ELSE strip(prev \o <<" ">> \o strip(nxt))

clean(parts) ==
    sub_ws2(strip(join_space(SelectSeq(parts, LAMBDA p : p # <<>>))))

\* list[-1] = value
SetLast(list, v) == [list EXCEPT ![Len(list)] = v]

(***************************************************************************)
(* parse_pool, one step per loop iteration.  A parser state is a record    *)
(* of the function's locals; L is the argument lines.                      *)
(***************************************************************************)
force_class == <<"E">>

NoRec == [id |-> 0, question |-> <<>>, class |-> <<>>, subelement |-> <<>>,
          group_index |-> <<>>, group_number |-> <<>>, answer |-> <<>>,
          answer_a |-> <<>>, answer_b |-> <<>>, answer_c |-> <<>>,
          answer_d |-> <<>>]

EmptyBufs == [l \in AnswerLetter |-> <<>>]

\* the locals at entry to the outer loop
Start == [i |-> 0, qid |-> 1, items |-> <<>>, pc |-> "seek", rec |-> NoRec,
          q_parts |-> <<>>, choice_bufs |-> EmptyBufs, current |-> "None"]

n(L) == Len(L)
line_at(L, s) == L[s.i + 1]

\* mutation: skipping a line takes the line after it along
SkipStep_SkipsTwo(L, s) == [s EXCEPT !.i = MinOf({s.i + 2, n(L)})]

\* mutation: a skipped line leaves the cursor where it is
SkipStep_NoAdvance(L, s) == s

\* outer loop, a line that is no header: i += 1; continue
SkipGuard(L, s) ==
    s.pc = "seek" /\ s.i < n(L) /\ HEADER_RE_match(line_at(L, s)) = None
SkipStep(L, s) == [s EXCEPT !.i = s.i + 1]

\* outer loop, a header line: the new rec, qid += 1, q_parts seeded, i += 1
OpenGuard(L, s) ==
    s.pc = "seek" /\ s.i < n(L) /\ HEADER_RE_match(line_at(L, s)) # None
\* Mutation of OpenStep: qid is not incremented.
OpenStep_QidStuck(L, s) ==
    LET gd == HEADER_RE_match(line_at(L, s))[1]
    IN  [s EXCEPT !.rec = [id |-> s.qid, question |-> <<>>,
                           class |-> force_class,
                           subelement |-> gd.subelement,
                           group_index |-> gd.group_index,
                           group_number |-> gd.group_number,
                           answer |-> gd.answer,
                           answer_a |-> <<>>, answer_b |-> <<>>,
                           answer_c |-> <<>>, answer_d |-> <<>>],
                  !.q_parts = IF strip(gd.qstart) # <<>>
                              THEN <<strip(gd.qstart)>> ELSE <<>>,
                  !.i = s.i + 1,
                  !.pc = "question"]

OpenStep(L, s) ==
    LET gd == HEADER_RE_match(line_at(L, s))[1]
    IN  [s EXCEPT !.rec = [id |-> s.qid, question |-> <<>>,
                           class |-> force_class,
                           subelement |-> gd.subelement,
                           group_index |-> gd.group_index,
                           group_number |-> gd.group_number,
                           answer |-> gd.answer,
                           answer_a |-> <<>>, answer_b |-> <<>>,
                           answer_c |-> <<>>, answer_d |-> <<>>],
                  !.qid = s.qid + 1,
                  !.q_parts = IF strip(gd.qstart) # <<>>
                              THEN <<strip(gd.qstart)>> ELSE <<>>,
                  !.i = s.i + 1,
                  !.pc = "question"]

\* Mutation of QuestionBreak: a header does not end the question text.
QuestionBreak_NoHeader(ln) ==
    SEP_RE_match(ln) \/ CHOICE_RE_match(ln) # None

\* the question loop's break test
QuestionBreak(ln) ==
    SEP_RE_match(ln) \/ HEADER_RE_match(ln) # None \/ CHOICE_RE_match(ln) # None

\* mutation: a blank line in the question starts a new fragment
QuestionStep_BlankStartsFragment(L, s) ==
    LET ln == line_at(L, s)
    IN  [s EXCEPT !.q_parts =
                      IF strip(ln) # <<>> /\ s.q_parts # <<>>
                      THEN SetLast(s.q_parts,
                               dehyphen_join(s.q_parts[Len(s.q_parts)], strip(ln)))
                      ELSE Append(s.q_parts, strip(ln)),
                  !.i = s.i + 1]

\* question loop, a line of question text
QuestionGuard(L, s) ==
    s.pc = "question" /\ s.i < n(L) /\ ~QuestionBreak(line_at(L, s))
QuestionStep(L, s) ==
    LET ln == line_at(L, s)
    IN  [s EXCEPT !.q_parts =
                      IF strip(ln) # <<>>
                      THEN IF s.q_parts # <<>>
                           THEN SetLast(s.q_parts,
                                    dehyphen_join(s.q_parts[Len(s.q_parts)],
                                                  strip(ln)))
                           ELSE Append(s.q_parts, strip(ln))
                      ELSE s.q_parts,
                  !.i = s.i + 1]

\* the question loop ends: rec["question"] is set, the choice buffers reset
EndQuestionGuard(L, s) ==
    s.pc = "question" /\ ~(s.i < n(L) /\ ~QuestionBreak(line_at(L, s)))
EndQuestionStep(L, s) ==
    [s EXCEPT !.rec = [s.rec EXCEPT !.question = strip(join_space(s.q_parts))],
              !.choice_bufs = EmptyBufs,
              !.current = "None",
              !.pc = "choices"]

\* the choice loop's break test
ChoicesBreak(ln) == SEP_RE_match(ln) \/ HEADER_RE_match(ln) # None

\* mutation: a choice line starts its letter's buffer afresh
ChoiceStep_FreshAccumulator(L, s) ==
    LET cm == CHOICE_RE_match(line_at(L, s))[1]
        first_text == IF cm.group2 = None THEN <<>> ELSE strip(cm.group2[1])
    IN  [s EXCEPT !.current = cm.group1,
                  !.choice_bufs =
                      [s.choice_bufs EXCEPT ![cm.group1] =
                          IF first_text # <<>> THEN <<first_text>> ELSE <<>>],
                  !.i = s.i + 1]

\* choice loop, a line that starts a choice
ChoiceGuard(L, s) ==
    /\ s.pc = "choices"
    /\ s.i < n(L)
    /\ ~ChoicesBreak(line_at(L, s))
    /\ CHOICE_RE_match(line_at(L, s)) # None
ChoiceStep(L, s) ==
    LET cm == CHOICE_RE_match(line_at(L, s))[1]
        first_text == IF cm.group2 = None THEN <<>> ELSE strip(cm.group2[1])
    IN  [s EXCEPT !.current = cm.group1,
                  !.choice_bufs =
                      IF first_text # <<>>
                      THEN [s.choice_bufs EXCEPT ![cm.group1] = Append(@, first_text)]
                      ELSE s.choice_bufs,
                  !.i = s.i + 1]

\* mutation: a line of text in the choices is put onto the question text too
ContinuationStep_AlsoQuestion(L, s) ==
    LET cont == strip(line_at(L, s))
        buf == s.choice_bufs[s.current]
    IN  [s EXCEPT !.choice_bufs =
                      IF s.current # "None" /\ cont # <<>>
                      THEN [s.choice_bufs EXCEPT ![s.current] =
                               IF buf # <<>>
                               THEN SetLast(buf, dehyphen_join(buf[Len(buf)], cont))
                               ELSE <<cont>>]
                      ELSE s.choice_bufs,
                  !.rec = [s.rec EXCEPT !.question = dehyphen_join(@, cont)],
                  !.i = s.i + 1]

\* choice loop, any other line: a continuation of the current choice, or noise
ContinuationGuard(L, s) ==
    /\ s.pc = "choices"
    /\ s.i < n(L)
    /\ ~ChoicesBreak(line_at(L, s))
    /\ CHOICE_RE_match(line_at(L, s)) = None
ContinuationStep(L, s) ==
    LET cont == strip(line_at(L, s))
        buf == s.choice_bufs[s.current]
    IN  [s EXCEPT !.choice_bufs =
                      IF s.current # "None" /\ cont # <<>>
                      THEN [s.choice_bufs EXCEPT ![s.current] =
                               IF buf # <<>>
                               THEN SetLast(buf, dehyphen_join(buf[Len(buf)], cont))
                               ELSE Append(buf, cont)]
                      ELSE s.choice_bufs,
                  !.i = s.i + 1]

\* Mutation of SealGuard: the choice loop has no exit at the end of the input.
SealGuard_NoEndOfInput(L, s) ==
    s.pc = "choices" /\ s.i < n(L) /\ ChoicesBreak(line_at(L, s))

\* the choice loop ends: the choices are cleaned, the record appended, and a
\* separator, if that is the line the loop stopped at, consumed
SealGuard(L, s) ==
    s.pc = "choices" /\ ~(s.i < n(L) /\ ~ChoicesBreak(line_at(L, s)))
\* Mutation of SealStep: the record is appended only when a separator ends it.
SealStep_OnlyOnSeparator(L, s) ==
    LET sealed == [s.rec EXCEPT !.answer_a = clean(s.choice_bufs["A"]),
                                !.answer_b = clean(s.choice_bufs["B"]),
                                !.answer_c = clean(s.choice_bufs["C"]),
                                !.answer_d = clean(s.choice_bufs["D"])]
        at_sep == s.i < n(L) /\ SEP_RE_match(line_at(L, s))
    IN  [s EXCEPT !.rec = sealed,
                  !.items = IF at_sep THEN Append(s.items, sealed) ELSE s.items,
                  !.i = IF at_sep THEN s.i + 1 ELSE s.i,
                  !.pc = "seek"]

\* Mutation of SealStep: a record none of whose choices was parsed is dropped.
SealStep_DropsChoiceless(L, s) ==
    LET sealed == [s.rec EXCEPT !.answer_a = clean(s.choice_bufs["A"]),
                                !.answer_b = clean(s.choice_bufs["B"]),
                                !.answer_c = clean(s.choice_bufs["C"]),
                                !.answer_d = clean(s.choice_bufs["D"])]
    IN  [s EXCEPT !.rec = sealed,
                  !.items = IF s.choice_bufs = EmptyBufs
                            THEN s.items ELSE Append(s.items, sealed),
                  !.i = IF s.i < n(L) /\ SEP_RE_match(line_at(L, s))
                        THEN s.i + 1 ELSE s.i,
                  !.pc = "seek"]

SealStep(L, s) ==
    LET sealed == [s.rec EXCEPT !.answer_a = clean(s.choice_bufs["A"]),
                                !.answer_b = clean(s.choice_bufs["B"]),
                                !.answer_c = clean(s.choice_bufs["C"]),
                                !.answer_d = clean(s.choice_bufs["D"])]
    IN  [s EXCEPT !.rec = sealed,
                  !.items = Append(s.items, sealed),
                  !.i = IF s.i < n(L) /\ SEP_RE_match(line_at(L, s))
                        THEN s.i + 1 ELSE s.i,
                  !.pc = "seek"]

\* the outer loop ends: return items
ReturnGuard(L, s) == s.pc = "seek" /\ s.i >= n(L)
ReturnStep(L, s) == [s EXCEPT !.pc = "done"]

\* the step the parser takes in state s
Step(L, s) ==
    IF SkipGuard(L, s) THEN SkipStep(L, s)
    ELSE IF OpenGuard(L, s) THEN OpenStep(L, s)
    ELSE IF QuestionGuard(L, s) THEN QuestionStep(L, s)
    ELSE IF EndQuestionGuard(L, s) THEN EndQuestionStep(L, s)
    ELSE IF ChoiceGuard(L, s) THEN ChoiceStep(L, s)
    ELSE IF ContinuationGuard(L, s) THEN ContinuationStep(L, s)
    ELSE IF SealGuard(L, s) THEN SealStep(L, s)
    ELSE IF ReturnGuard(L, s) THEN ReturnStep(L, s)
    ELSE s

RECURSIVE Run(_, _)
Run(L, s) == IF s.pc = "done" \/ Step(L, s) = s THEN s ELSE Run(L, Step(L, s))

\* parse_pool(lines): the returned items
parse_pool(L) == Run(L, Start).items

(***************************************************************************)
(* Input lines.                                                            *)
(***************************************************************************)
HdrFull == <<"E", "1", "A", "0", "1", " ", "(", "D", ")", " ", "[", "9", "7", ".", "1", "]", " ", "W", "h", "a", "t", " ", "i", "s", " ", "h", "a", "m", " ", "r", "a", "d", "i", "o", "?">>
HdrBare == <<"E", "2", "B", "0", "3", "(", "A", ")">>
HdrLenient == <<"E", "1", "A", "0", "1", " ", "(", " ", "D", " ", ")", " ", "t", "e", "x", "t">>
HdrTight == <<"E", "1", "A", "0", "1", " ", "(", "D", ")", " ", "t", "e", "x", "t">>
HdrWs == <<" ", " ", "E", "3", "C", "1", "2", " ", "(", "B", ")", " ", " ", "a", "n", " ", " ", "e", "x", "-">>
PlainHyphen == <<"b", "a", "s", "e", "-">>
PlainLower == <<"b", "a", "l", "l", " ", "e", "x", "t", "r", "a">>
PlainUpper == <<"W", "o", "r", "d">>
PlainMulti == <<"m", "u", "l", "t", "i", "-">>
PlainTab == <<"a", " ", "\t", " ", "b">>
Blank == <<" ", " ">>
ChoiceA == <<"A", ".", " ", "x">>
ChoiceB == <<"B", ".", " ", "y">>
ChoiceC == <<"C", ".", " ", "z">>
ChoiceD == <<"D", ".", " ", "w">>
ChoiceBare == <<"A", ".">>
ChoiceHyph == <<"A", ".", " ", "y", "e", "s", "-">>
ChoiceWs == <<" ", "B", ".", " ", " ", "t", "w", "o", " ", " ", "s", "p", " ">>
Sep == <<"~", "~">>
SepWs == <<" ", "~", "~", " ">>

\* the lines a short input is made of
LineSet == {HdrFull, HdrBare, HdrWs, HdrLenient, PlainHyphen, PlainLower,
            Blank, ChoiceA, ChoiceWs, Sep}

MaxLines == 3

RECURSIVE SeqsUpTo(_, _)
SeqsUpTo(S, k) ==
    IF k = 0 THEN {<<>>}
    ELSE SeqsUpTo(S, k - 1)
         \cup {Append(q, x) : q \in {r \in SeqsUpTo(S, k - 1) : Len(r) = k - 1}, x \in S}

\* every input of at most MaxLines lines
ShortInputs == SeqsUpTo(LineSet, MaxLines)

\* one whole block: a header, three lines of text, the four choices, a separator
PlainTexts == {PlainHyphen, PlainLower, PlainUpper, PlainTab}
BlockInputs ==
    {<<h, p1, p2, p3, ChoiceA, b, ChoiceC, ChoiceD, sp>> :
        h \in {HdrBare, HdrFull}, p1 \in PlainTexts, p2 \in PlainTexts,
        p3 \in PlainTexts, b \in {ChoiceB, ChoiceWs}, sp \in {Sep, SepWs}}

\* blocks cut short by the next header, in the question and in the choices
InterruptedInputs ==
    {<<HdrFull, p, HdrBare, ChoiceA, q, HdrWs, t>> :
        p \in {PlainHyphen, Blank}, q \in {PlainLower, PlainTab},
        t \in {ChoiceBare, PlainLower, Sep}}

\* blocks in which a choice letter comes twice, with and without text of its
\* own, a line before the first choice line and lines of text after each
RepeatInputs ==
    {<<HdrBare, p0, c1, p, c2, q, Sep>> :
        p0 \in {PlainHyphen, Blank},
        c1 \in {ChoiceA, ChoiceBare, ChoiceHyph}, p \in {PlainLower, Blank},
        c2 \in {ChoiceA, ChoiceBare, ChoiceB}, q \in {PlainLower, PlainUpper}}

Inputs == ShortInputs \cup BlockInputs \cup InterruptedInputs \cup RepeatInputs

(***************************************************************************)
(* The exam session (src/extra_exam.py).  A dict is a function on its set  *)
(* of keys; the session object is the record of its stats, its current     *)
(* exam and the content of its state file (None while there is no file).   *)
(* The state file holds what json.dump writes: the keys of a dict are      *)
(* strings there, so the integer keys of answered are written as digits.   *)
(***************************************************************************)
HdrSecond == <<"E", "1", "A", "0", "2", "(", "C", ")">>

\* extra_pool.json: three questions, two of them of group E1A, with the
\* fields the session reads (the codes and the answer letter are those
\* parse_pool gives for HdrFull, HdrSecond and HdrBare)
Pool ==
    << [id |-> 1, subelement |-> <<"1">>, group_index |-> <<"A">>,
        group_number |-> <<"0", "1">>, answer |-> <<"D">>],
       [id |-> 2, subelement |-> <<"1">>, group_index |-> <<"A">>,
        group_number |-> <<"0", "2">>, answer |-> <<"C">>],
       [id |-> 3, subelement |-> <<"2">>, group_index |-> <<"B">>,
        group_number |-> <<"0", "3">>, answer |-> <<"A">>] >>

DigitChars == <<"0", "1", "2", "3", "4", "5", "6", "7", "8", "9">>
DigitVal(c) == CHOOSE d \in 0..9 : DigitChars[d + 1] = c

\* int(s) of a string of digits
RECURSIVE int_of(_)
int_of(s) ==
    IF s = <<>> THEN 0
    ELSE 10 * int_of(SubSeq(s, 1, Len(s) - 1)) + DigitVal(s[Len(s)])

\* the JSON object key json.dump writes for an int
RECURSIVE str_of(_)
str_of(k) ==
    IF k < 10 THEN <<DigitChars[k + 1]>>
    ELSE str_of(k \div 10) \o <<DigitChars[(k % 10) + 1]>>

EmptyDict == [k \in {} |-> {}]
\* d.get(k, default)
Get(d, k, default) == IF k \in DOMAIN d THEN d[k] ELSE default
DictPut(d, k, v) == [x \in (DOMAIN d) \cup {k} |-> IF x = k THEN v ELSE d[x]]
Elems(q) == {q[k] : k \in 1..Len(q)}
AppendNew(q, x) == IF x \in Elems(q) THEN q ELSE Append(q, x)

group_key(q) == <<"E">> \o q.subelement \o q.group_index
sub_key(q) == <<"E">> \o q.subelement

\* Stats() and CurrentExam()
NewStats == [history |-> <<>>, subelements |-> EmptyDict, groups |-> EmptyDict]
NewCurrentExam ==
    [selected_ids |-> <<>>, presented_ids |-> <<>>, answered |-> EmptyDict,
     correct_ids |-> <<>>, wrong_ids |-> <<>>, done |-> FALSE,
     last_shown_id |-> None]

Stats_from_dict(d) ==
    [history |-> Get(d, "history", <<>>),
     subelements |-> Get(d, "subelements", EmptyDict),
     groups |-> Get(d, "groups", EmptyDict)]
Stats_to_dict(st) ==
    [history |-> st.history, subelements |-> st.subelements, groups |-> st.groups]

\* mutation: the answered entries are not read back
CurrentExam_from_dict_NoAnswered(d) ==
    [selected_ids |-> Get(d, "selected_ids", <<>>),
     presented_ids |-> Get(d, "presented_ids", <<>>),
     answered |-> EmptyDict,
     correct_ids |-> Get(d, "correct_ids", <<>>),
     wrong_ids |-> Get(d, "wrong_ids", <<>>),
     done |-> Get(d, "done", FALSE),
     last_shown_id |-> Get(d, "last_shown_id", None)]

\* the keys of answered are read back with int(k)
CurrentExam_from_dict(d) ==
    LET answered_raw == Get(d, "answered", EmptyDict)
    IN  [selected_ids |-> Get(d, "selected_ids", <<>>),
         presented_ids |-> Get(d, "presented_ids", <<>>),
         answered |-> [k \in {int_of(t) : t \in DOMAIN answered_raw} |->
                          answered_raw[str_of(k)]],
         correct_ids |-> Get(d, "correct_ids", <<>>),
         wrong_ids |-> Get(d, "wrong_ids", <<>>),
         done |-> Get(d, "done", FALSE),
         last_shown_id |-> Get(d, "last_shown_id", None)]
CurrentExam_to_dict(c) ==
    [selected_ids |-> c.selected_ids, presented_ids |-> c.presented_ids,
     answered |-> c.answered,
     correct_ids |-> c.correct_ids, wrong_ids |-> c.wrong_ids,
     done |-> c.done, last_shown_id |-> c.last_shown_id]

\* json.dump(out, f) as json.load reads it back: object keys are strings
json_dump(out) ==
    [stats |-> out.stats,
     current |-> [out.current EXCEPT !.answered =
                     [t \in {str_of(k) : k \in DOMAIN out.current.answered} |->
                         out.current.answered[int_of(t)]]]]

save_state(S) ==
    [S EXCEPT !.file = Some(json_dump([stats |-> Stats_to_dict(S.stats),
                                       current |-> CurrentExam_to_dict(S.current)]))]

\* the content of a file that is no JSON text: its bytes.  (A JSON text is
\* held as the object json.load reads from it.)
Bytes(text) == [bytes |-> text]
IsJson(data) == "bytes" \notin DOMAIN data

\* a file that cannot be read as JSON is replaced by a fresh state
load_or_init_state(S) ==
    IF S.file # None /\ IsJson(S.file[1])
    THEN [S EXCEPT !.stats = Stats_from_dict(Get(S.file[1], "stats", EmptyDict)),
                   !.current = CurrentExam_from_dict(Get(S.file[1], "current", EmptyDict))]
    ELSE save_state([S EXCEPT !.stats = NewStats, !.current = NewCurrentExam])

\* ExamSession(...): a new session object over the state file
ExamSession(file) ==
    load_or_init_state([stats |-> NewStats, current |-> NewCurrentExam,
                        file |-> file])

\* a base64 text is the pair of its kind and what it encodes; a text
\* whose length is no multiple of four makes b64decode raise
b64encode(raw) == <<"base64", raw>>
b64decode(text) == text[2]
b64decode_raises(text) == text[1] # "base64"

\* the session after the call and the text returned
dump_state_base64(S) ==
    LET S1 == IF S.file = None THEN save_state(S) ELSE S
    IN  [sess |-> S1, b64 |-> b64encode(S1.file[1])]

\* mutation: the file is written before the data is validated
load_state_base64_WritesFirst(S, b64) ==
    IF b64decode_raises(b64) THEN [sess |-> S, raised |-> TRUE]
    ELSE LET data == b64decode(b64)
             S1 == [S EXCEPT !.file = Some(data)]
         IN  IF ~IsJson(data) THEN [sess |-> S1, raised |-> TRUE]
             ELSE IF ~("stats" \in DOMAIN data /\ "current" \in DOMAIN data)
                  THEN [sess |-> S1, raised |-> TRUE]
                  ELSE [sess |-> load_or_init_state(S1), raised |-> FALSE]

\* the session after the call and whether the call raised
load_state_base64(S, b64) ==
    IF b64decode_raises(b64) THEN [sess |-> S, raised |-> TRUE]
    ELSE LET data == b64decode(b64)
         IN  IF ~IsJson(data) THEN [sess |-> S, raised |-> TRUE]
             ELSE IF ~("stats" \in DOMAIN data /\ "current" \in DOMAIN data)
                  THEN [sess |-> S, raised |-> TRUE]
                  ELSE [sess |-> load_or_init_state([S EXCEPT !.file = Some(data)]),
                        raised |-> FALSE]

\* the buckets of start_new_exam: the group keys of the pool in the order of
\* their first question, and the pool positions of the questions of a key
FirstOfGroup == {k \in 1..Len(Pool) :
                    \A m \in 1..(k - 1) : group_key(Pool[m]) # group_key(Pool[k])}
Bucket(key) == {k \in 1..Len(Pool) : group_key(Pool[k]) = key}
GroupKeys == {group_key(Pool[k]) : k \in 1..Len(Pool)}

\* what rng.choice can return for the buckets: one pool position per key
Picks == {f \in [GroupKeys -> 1..Len(Pool)] : \A key \in GroupKeys : f[key] \in Bucket(key)}

\* the order of str values, character by character
CharOrder == DigitChars \o
    <<"A", "B", "C", "D", "E", "F", "G", "H", "I", "J", "K", "L", "M",
      "N", "O", "P", "Q", "R", "S", "T", "U", "V", "W", "X", "Y", "Z">>
Ord(c) == CHOOSE k \in 1..Len(CharOrder) : CharOrder[k] = c

RECURSIVE StrLess(_, _)
StrLess(a, b) ==
    IF b = <<>> THEN FALSE
    ELSE IF a = <<>> THEN TRUE
    ELSE IF a[1] # b[1] THEN Ord(a[1]) < Ord(b[1])
    ELSE StrLess(Tail(a), Tail(b))

\* the sort key of chosen.sort: (int(subelement), group_index, group_number)
KeyLess(p, q) ==
    \/ int_of(p.subelement) < int_of(q.subelement)
    \/ /\ int_of(p.subelement) = int_of(q.subelement)
       /\ \/ StrLess(p.group_index, q.group_index)
          \/ /\ p.group_index = q.group_index
             /\ StrLess(p.group_number, q.group_number)

\* chosen after the (stable) sort, as pool positions: the bucket of position a
\* comes before the bucket of position b
ChosenBefore(pick, a, b) ==
    LET pa == Pool[pick[group_key(Pool[a])]]
        pb == Pool[pick[group_key(Pool[b])]]
    IN  KeyLess(pa, pb) \/ (~KeyLess(pb, pa) /\ a < b)

SortedChosen(pick) ==
    [r \in 1..Cardinality(FirstOfGroup) |->
        LET b == CHOOSE a \in FirstOfGroup :
                    Cardinality({c \in FirstOfGroup : ChosenBefore(pick, c, a)}) = r - 1
        IN  Pool[pick[group_key(Pool[b])]]]

\* mutation: the new exam keeps the progress of the one before
start_new_exam_KeepsProgress(S, pick) ==
    save_state([S EXCEPT !.current =
        [S.current EXCEPT !.selected_ids =
            [r \in 1..Cardinality(FirstOfGroup) |-> SortedChosen(pick)[r].id]]])

start_new_exam(S, pick) ==
    save_state([S EXCEPT !.current =
        [NewCurrentExam EXCEPT !.selected_ids =
            [r \in 1..Cardinality(FirstOfGroup) |-> SortedChosen(pick)[r].id]]])

q_by_id(id) == Pool[MinOf({k \in 1..Len(Pool) : Pool[k].id = id})]

\* the positions in selected_ids of the questions with no answer yet
Unanswered(c) ==
    {k \in 1..Len(c.selected_ids) : c.selected_ids[k] \notin DOMAIN c.answered}

\* _has_unanswered(sess) of exam_repl.py
has_unanswered(S) == Unanswered(S.current) # {}

\* mutation: the question shown is the last without an answer
next_question_markdown_Last(S) ==
    IF Unanswered(S.current) = {} THEN S
    ELSE LET id == S.current.selected_ids[MaxOf(Unanswered(S.current))]
         IN  save_state([S EXCEPT !.current =
                 [S.current EXCEPT !.last_shown_id = Some(id),
                                   !.presented_ids = AppendNew(@, id)]])

next_question_markdown(S) ==
    IF Unanswered(S.current) = {} THEN S
    ELSE LET id == S.current.selected_ids[MinOf(Unanswered(S.current))]
         IN  save_state([S EXCEPT !.current =
                 [S.current EXCEPT !.last_shown_id = Some(id),
                                   !.presented_ids = AppendNew(@, id)]])

correct_letter(q) == q.answer[1]

\* mutation: a wrong answer is listed as a correct one too
answer_ListedCorrect(S, id, letter) ==
    IF letter \notin AnswerLetter THEN S
    ELSE LET is_correct == (letter = correct_letter(q_by_id(id)))
         IN  save_state([S EXCEPT !.current =
                 [S.current EXCEPT
                     !.answered = DictPut(@, id, [selected |-> letter,
                                                  correct |-> is_correct]),
                     !.correct_ids = AppendNew(@, id),
                     !.wrong_ids = IF is_correct THEN @ ELSE AppendNew(@, id),
                     !.last_shown_id = None]])

answer(S, id, letter) ==
    IF letter \notin AnswerLetter THEN S
    ELSE LET is_correct == (letter = correct_letter(q_by_id(id)))
         IN  save_state([S EXCEPT !.current =
                 [S.current EXCEPT
                     !.answered = DictPut(@, id, [selected |-> letter,
                                                  correct |-> is_correct]),
                     !.correct_ids = IF is_correct THEN AppendNew(@, id) ELSE @,
                     !.wrong_ids = IF is_correct THEN @ ELSE AppendNew(@, id),
                     !.last_shown_id = None]])

answer_current(S, letter) ==
    IF S.current.last_shown_id = None THEN S
    ELSE answer(S, S.current.last_shown_id[1], letter)

\* round(x) of Python for x = 100 * correct / total: halves go to the even side
RoundPct(correct, total) ==
    LET q == (100 * correct) \div total
        r == (100 * correct) % total
    IN  IF 2 * r < total THEN q
        ELSE IF 2 * r > total THEN q + 1
        ELSE IF q % 2 = 0 THEN q ELSE q + 1

\* the per-subelement counts after the answered questions are tallied
Tally(subelements, answered) ==
    LET keys == (DOMAIN subelements) \cup
                    {sub_key(q_by_id(id)) : id \in DOMAIN answered}
        old(k) == IF k \in DOMAIN subelements THEN subelements[k]
                  ELSE [right |-> 0, wrong |-> 0]
        of(k, c) == Cardinality({id \in DOMAIN answered :
                        sub_key(q_by_id(id)) = k /\ answered[id].correct = c})
    IN  [k \in keys |-> [right |-> old(k).right + of(k, TRUE),
                         wrong |-> old(k).wrong + of(k, FALSE)]]

\* ts is what _now_iso() returns
finalize(S, ts) ==
    LET total == Len(S.current.selected_ids)
        correct == Len(S.current.correct_ids)
    IN  IF total = 0 THEN S
        ELSE save_state([S EXCEPT
                 !.current = [S.current EXCEPT !.done = TRUE],
                 !.stats = [S.stats EXCEPT
                     !.history = Append(@, [ts |-> ts,
                                            scorePct |-> RoundPct(correct, total)]),
                     !.subelements = Tally(@, S.current.answered)]])

(***************************************************************************)
(* The parser as a state machine over its locals.                          *)
(***************************************************************************)
Cur == [i |-> i, qid |-> qid, items |-> items, pc |-> pc, rec |-> rec,
        q_parts |-> q_parts, choice_bufs |-> choice_bufs, current |-> current]

Commit(s) ==
    /\ i' = s.i
    /\ qid' = s.qid
    /\ items' = s.items
    /\ pc' = s.pc
    /\ rec' = s.rec
    /\ q_parts' = s.q_parts
    /\ choice_bufs' = s.choice_bufs
    /\ current' = s.current
    /\ UNCHANGED <<lines, jprev, jnxt, jout>>
    /\ UNCHANGED <<cvars, evars>>

\* no line is being classified; no exam session has run (no state file yet)
ClassifierIdle == cline = <<>> /\ cclass = None
ExamIdle ==
    /\ stats = NewStats
    /\ current_exam = NewCurrentExam
    /\ state_file = None
    /\ rpc = "idle"
    /\ submitted = None
    /\ dumped = None

Init ==
    /\ lines \in Inputs
    /\ i = Start.i
    /\ qid = Start.qid
    /\ items = Start.items
    /\ pc = Start.pc
    /\ rec = Start.rec
    /\ q_parts = Start.q_parts
    /\ choice_bufs = Start.choice_bufs
    /\ current = Start.current
    /\ jprev = <<>>
    /\ jnxt = <<>>
    /\ jout = None
    /\ ClassifierIdle
    /\ ExamIdle

SkipLine == SkipGuard(lines, Cur) /\ Commit(SkipStep(lines, Cur))
OpenRecord == OpenGuard(lines, Cur) /\ Commit(OpenStep(lines, Cur))
QuestionLine == QuestionGuard(lines, Cur) /\ Commit(QuestionStep(lines, Cur))
EndQuestion == EndQuestionGuard(lines, Cur) /\ Commit(EndQuestionStep(lines, Cur))
ChoiceLine == ChoiceGuard(lines, Cur) /\ Commit(ChoiceStep(lines, Cur))
ContinuationLine == ContinuationGuard(lines, Cur) /\ Commit(ContinuationStep(lines, Cur))
SealRecord == SealGuard(lines, Cur) /\ Commit(SealStep(lines, Cur))
Return == ReturnGuard(lines, Cur) /\ Commit(ReturnStep(lines, Cur))

Next ==
    \/ SkipLine
    \/ OpenRecord
    \/ QuestionLine
    \/ EndQuestion
    \/ ChoiceLine
    \/ ContinuationLine
    \/ SealRecord
    \/ Return

Spec == Init /\ [][Next]_vars

\* the parser on every input of at most MaxLines lines out of five short ones
BriefLineSet == {HdrBare, PlainHyphen, PlainLower, ChoiceHyph, Sep}
BriefInputs == SeqsUpTo(BriefLineSet, MaxLines)

InitBrief ==
    /\ lines \in BriefInputs
    /\ i = Start.i
    /\ qid = Start.qid
    /\ items = Start.items
    /\ pc = Start.pc
    /\ rec = Start.rec
    /\ q_parts = Start.q_parts
    /\ choice_bufs = Start.choice_bufs
    /\ current = Start.current
    /\ jprev = <<>>
    /\ jnxt = <<>>
    /\ jout = None
    /\ ClassifierIdle
    /\ ExamIdle

SpecBrief == InitBrief /\ [][Next]_vars

\* parse_pool is one uninterrupted call, so a step that can be taken is taken:
\* weak fairness of Next.  Some step of Next is enabled, and changes i or pc,
\* exactly when pc # "done" (HasStep below), and the condition on the loop
\* steps is written with that in place of ENABLED <<Next>>_vars.
SpecFair ==
    /\ Init /\ [][Next]_vars
    /\ WF_vars(Return)
    /\ ([]<>(pc = "done") \/ []<><<Next>>_vars)

(***************************************************************************)
(* dehyphen_join called on its own, on arguments drawn from JoinArgs.      *)
(***************************************************************************)
JoinArgs == {<<>>, <<" ">>, <<"a">>, <<"a", " ">>, <<" ", "b">>, <<"-">>,
             PlainHyphen, PlainMulti, PlainLower, PlainUpper,
             <<"a", " ", "-">>, <<" ", "W">>}

InitJoin ==
    /\ lines = <<>>
    /\ i = Start.i
    /\ qid = Start.qid
    /\ items = Start.items
    /\ pc = "done"
    /\ rec = Start.rec
    /\ q_parts = Start.q_parts
    /\ choice_bufs = Start.choice_bufs
    /\ current = Start.current
    /\ jprev \in JoinArgs
    /\ jnxt \in JoinArgs
    /\ jout = None
    /\ ClassifierIdle
    /\ ExamIdle

CallJoin ==
    /\ jout = None
    /\ jout' = Some(dehyphen_join(jprev, jnxt))
    /\ UNCHANGED <<pvars, jprev, jnxt>>
    /\ UNCHANGED <<cvars, evars>>

NextJoin == CallJoin

SpecJoin == InitJoin /\ [][NextJoin]_vars

\* the parser and dehyphen_join are not running
ParserIdle ==
    /\ lines = <<>>
    /\ i = Start.i
    /\ qid = Start.qid
    /\ items = Start.items
    /\ pc = "done"
    /\ rec = Start.rec
    /\ q_parts = Start.q_parts
    /\ choice_bufs = Start.choice_bufs
    /\ current = Start.current
JoinIdle == jprev = <<>> /\ jnxt = <<>> /\ jout = None

(***************************************************************************)
(* The three line patterns tried on one line, in every order of testing.   *)
(***************************************************************************)
Patterns == {"sep", "header", "choice"}
Matches(ln, c) ==
    CASE c = "sep" -> SEP_RE_match(ln)
      [] c = "header" -> HEADER_RE_match(ln) # None
      [] c = "choice" -> CHOICE_RE_match(ln) # None

\* the class of a line when the patterns are tried in the given order
RECURSIVE FirstMatch(_, _)
FirstMatch(ln, order) ==
    IF order = <<>> THEN "plain"
    ELSE IF Matches(ln, order[1]) THEN order[1]
    ELSE FirstMatch(ln, Tail(order))

TestOrders ==
    {o \in Patterns \X Patterns \X Patterns :
        o[1] # o[2] /\ o[1] # o[3] /\ o[2] # o[3]}

\* lines that begin like a line of one pattern and go on like one of another
LineLeads == {<<>>, <<" ">>, <<"\t", " ">>}
LineCores == {HdrBare, HdrSecond, HdrTight, ChoiceBare, ChoiceA, ChoiceD, Sep,
              <<"E", ".">>, <<"E", "1", "A", "0", "1">>, <<"A">>, <<"~">>, <<"a", ".">>, <<"x">>}
LineTails == {<<>>, <<" ">>, Sep, SepWs, ChoiceA, <<" ">> \o ChoiceB,
              <<" ">> \o HdrBare}
ClassifyLines ==
    {a \o b \o c : a \in LineLeads, b \in LineCores, c \in LineTails}

InitClassify ==
    /\ cline \in ClassifyLines
    /\ cclass = None
    /\ ParserIdle
    /\ JoinIdle
    /\ ExamIdle

Classify ==
    /\ cclass = None
    /\ cclass' = Some([o \in TestOrders |-> FirstMatch(cline, o)])
    /\ UNCHANGED <<cline, pvars, jvars, evars>>

NextClassify == Classify

SpecClassify == InitClassify /\ [][NextClassify]_vars

(***************************************************************************)
(* chat_repl (src/exam_repl.py), one command at a time.  Every command     *)
(* builds a new session object from the state file; rpc is the position in *)
(* the handler, submitted the letter of the Submit command being handled,  *)
(* dumped the latest snapshot given out with the session it was taken of.  *)
(* A snapshot given out can be loaded back between two commands.           *)
(***************************************************************************)
MaxHistory == 2

\* what _now_iso() can return
Times == {"T1", "T2"}

Sess == [stats |-> stats, current |-> current_exam, file |-> state_file]

SetSess(S) ==
    /\ stats' = S.stats
    /\ current_exam' = S.current
    /\ state_file' = S.file

Snapshot(d) == Some([b64 |-> d.b64, stats |-> d.sess.stats, current |-> d.sess.current])

AtPrompt == rpc \in {"idle", "restored", "load_failed"}

\* texts that do not decode to a JSON object with the keys "stats" and
\* "current": an ill-padded text, the empty text, the base64 of bytes that
\* are no JSON, of "{}", and of objects lacking one or both of the keys
InvalidTexts ==
    { <<"padding", Bytes(<<"a", "b", "c">>)>>,
      b64encode(Bytes(<<>>)),
      b64encode(Bytes(<<"n", "o">>)),
      b64encode(EmptyDict),
      b64encode([stats |-> Stats_to_dict(NewStats)]),
      b64encode([current |-> CurrentExam_to_dict(NewCurrentExam)]),
      b64encode([history |-> <<>>]) }

\* "help", and any text that is no command
Help ==
    /\ AtPrompt
    /\ SetSess(ExamSession(state_file))
    /\ rpc' = "idle"
    /\ UNCHANGED <<submitted, dumped>>
    /\ UNCHANGED <<pvars, jvars, cvars>>

\* "new test": sess.start_new_exam()
NewTestStart ==
    /\ AtPrompt
    /\ \E pick \in Picks : SetSess(start_new_exam(ExamSession(state_file), pick))
    /\ rpc' = "new_test"
    /\ UNCHANGED <<submitted, dumped>>
    /\ UNCHANGED <<pvars, jvars, cvars>>

\* "new test": sess.next_question_markdown(), sess.dump_state_base64()
NewTestShow ==
    /\ rpc = "new_test"
    /\ LET d == dump_state_base64(next_question_markdown(Sess))
       IN  SetSess(d.sess) /\ dumped' = Snapshot(d)
    /\ rpc' = "idle"
    /\ UNCHANGED submitted
    /\ UNCHANGED <<pvars, jvars, cvars>>

\* "<letter> submit": a question is made current if none is
SubmitShow ==
    /\ AtPrompt
    /\ Len(stats.history) < MaxHistory
    /\ \E l \in AnswerLetter : submitted' = Some(l)
    /\ LET S0 == ExamSession(state_file)
       IN  SetSess(IF S0.current.last_shown_id = None /\ has_unanswered(S0)
                   THEN next_question_markdown(S0) ELSE S0)
    /\ rpc' = "submit"
    /\ UNCHANGED dumped
    /\ UNCHANGED <<pvars, jvars, cvars>>

\* "<letter> submit": sess.answer_current(letter)
SubmitAnswer ==
    /\ rpc = "submit"
    /\ SetSess(answer_current(Sess, submitted[1]))
    /\ rpc' = "answered"
    /\ UNCHANGED <<submitted, dumped>>
    /\ UNCHANGED <<pvars, jvars, cvars>>

\* "<letter> submit", nothing left to answer: finalize, charts, snapshot
SubmitFinish ==
    /\ rpc = "answered"
    /\ ~has_unanswered(Sess)
    /\ \E ts \in Times :
          LET d == dump_state_base64(finalize(Sess, ts))
          IN  SetSess(d.sess) /\ dumped' = Snapshot(d)
    /\ rpc' = "idle"
    /\ submitted' = None
    /\ UNCHANGED <<pvars, jvars, cvars>>

\* "<letter> submit", questions left: the next one is shown
SubmitNext ==
    /\ rpc = "answered"
    /\ has_unanswered(Sess)
    /\ SetSess(next_question_markdown(Sess))
    /\ rpc' = "idle"
    /\ submitted' = None
    /\ UNCHANGED dumped
    /\ UNCHANGED <<pvars, jvars, cvars>>

\* sess.load_state_base64(b64) with the snapshot given out last
LoadSnapshot ==
    /\ AtPrompt
    /\ dumped # None
    /\ LET r == load_state_base64(ExamSession(state_file), dumped[1].b64)
       IN  /\ SetSess(r.sess)
           /\ rpc' = IF r.raised THEN "load_failed" ELSE "restored"
    /\ UNCHANGED <<submitted, dumped>>
    /\ UNCHANGED <<pvars, jvars, cvars>>

\* sess.load_state_base64(b64) with a text that is no snapshot
LoadInvalid ==
    /\ AtPrompt
    /\ \E b64 \in InvalidTexts :
          LET r == load_state_base64(ExamSession(state_file), b64)
          IN  /\ SetSess(r.sess)
              /\ rpc' = IF r.raised THEN "load_failed" ELSE "restored"
    /\ UNCHANGED <<submitted, dumped>>
    /\ UNCHANGED <<pvars, jvars, cvars>>

InitExam ==
    /\ ExamIdle
    /\ ParserIdle
    /\ JoinIdle
    /\ ClassifierIdle

NextExam ==
    \/ Help
    \/ NewTestStart
    \/ NewTestShow
    \/ SubmitShow
    \/ SubmitAnswer
    \/ SubmitFinish
    \/ SubmitNext
    \/ LoadSnapshot
    \/ LoadInvalid

SpecExam == InitExam /\ [][NextExam]_vars

(***************************************************************************)
(* Vocabulary of the properties.                                           *)
(***************************************************************************)
IsHeaderLine(ln) == HEADER_RE_match(ln) # None
IsChoiceLine(ln) == CHOICE_RE_match(ln) # None
IsSepLine(ln) == SEP_RE_match(ln)

\* the positions of the header lines of L, and the k-th of them
HeaderIdx(L) == {j \in 1..Len(L) : IsHeaderLine(L[j])}
NumHeaders(L) == Cardinality(HeaderIdx(L))
KthHeader(L, k) ==
    CHOOSE j \in HeaderIdx(L) : Cardinality({m \in HeaderIdx(L) : m <= j}) = k

\* the first position after h holding a separator or a header (Len(L) + 1 if none)
BlockEnd(L, h) ==
    MinOf({j \in (h + 1)..Len(L) : IsSepLine(L[j]) \/ IsHeaderLine(L[j])}
          \cup {Len(L) + 1})

\* the first position after h holding a header (Len(L) + 1 if none)
NextHeader(L, h) ==
    MinOf({j \in (h + 1)..Len(L) : IsHeaderLine(L[j])} \cup {Len(L) + 1})

IsPrefix(p, s) == Len(p) <= Len(s) /\ SubSeq(s, 1, Len(p)) = p

NoWhitespaceRun(s) ==
    \A j \in 1..(Len(s) - 1) : ~(IsSpace(s[j]) /\ IsSpace(s[j + 1]))

Choices(r) == <<r.answer_a, r.answer_b, r.answer_c, r.answer_d>>

(***************************************************************************)
(* C1.  The ids of the returned records are exactly 1..N in increasing     *)
(* order, N the number of input lines matching the header pattern, and the *)
(* record with id k carries the codes of the k-th header line.             *)
(***************************************************************************)
C1_DenseIds ==
    /\ \A k \in 1..Len(items) : items[k].id = k
    /\ pc = "done" =>
          /\ Len(items) = NumHeaders(lines)
          /\ \A k \in 1..Len(items) :
                LET gd == HEADER_RE_match(lines[KthHeader(lines, k)])[1]
                IN  /\ items[k].subelement = gd.subelement
                    /\ items[k].group_index = gd.group_index
                    /\ items[k].group_number = gd.group_number
                    /\ items[k].answer = gd.answer

\* three records returned from an input that also holds other lines
C1_Witness ==
    pc = "done" /\ Len(items) = 3 /\ Len(lines) > 3 /\ items[3].id = 3

(***************************************************************************)
(* C2.  Parsing L and parsing L followed by one separator line return the  *)
(* same records: a record open at the end of the input is emitted as       *)
(* though a separator had followed.                                        *)
(***************************************************************************)
C2_EndOfInputSeals ==
    pc = "done" => items = parse_pool(Append(lines, Sep))

\* the input ended inside the choices of its last record
C2_Witness ==
    /\ pc = "done"
    /\ HeaderIdx(lines) # {}
    /\ LET h == MaxOf(HeaderIdx(lines))
       IN  /\ \A j \in (h + 1)..Len(lines) : ~IsSepLine(lines[j])
           /\ \E j \in (h + 1)..Len(lines) : IsChoiceLine(lines[j])
    /\ Len(items) = NumHeaders(lines)

(***************************************************************************)
(* C3.  A header line met while a record is open seals that record as it   *)
(* is and opens a new record with the next id: every record is the one     *)
(* parse_pool returns for its own block (its header line up to the line    *)
(* before the next header), so nothing of a later header reaches it.       *)
(***************************************************************************)
C3_HeaderSealsOpenRecord ==
    pc = "done" =>
       /\ Len(items) = NumHeaders(lines)
       /\ \A k \in 1..NumHeaders(lines) :
             LET h == KthHeader(lines, k)
                 own == parse_pool(SubSeq(lines, h, NextHeader(lines, h) - 1))
             IN  /\ Len(own) = 1
                 /\ items[k] = [own[1] EXCEPT !.id = k]

\* a header arrived in the question text of the first record and another in
\* the choices of the second
C3_Witness ==
    /\ pc = "done"
    /\ Len(lines) = 7
    /\ IsHeaderLine(lines[1]) /\ ~IsHeaderLine(lines[2]) /\ ~IsSepLine(lines[2])
    /\ IsHeaderLine(lines[3]) /\ IsChoiceLine(lines[4])
    /\ ~IsSepLine(lines[5]) /\ IsHeaderLine(lines[6])
    /\ Len(items) = 3

(***************************************************************************)
(* C4.  In every emitted record neither the question text nor any of the   *)
(* four choice texts holds a run of two or more whitespace characters.     *)
(* (The choice texts go through clean; rec["question"] does not.)          *)
(***************************************************************************)
C4_FieldsWhitespaceNormalized ==
    \A k \in 1..Len(items) :
        /\ NoWhitespaceRun(items[k].question)
        /\ \A c \in 1..4 : NoWhitespaceRun(Choices(items[k])[c])

(***************************************************************************)
(* C5.  A header whose answer parenthesis has whitespace around the letter *)
(* ("E1A01 ( D ) text") opens a record exactly like the tight form         *)
(* ("E1A01 (D) text"): the returned records are those of the input with    *)
(* each such line written in the tight form.                               *)
(***************************************************************************)
TightForm(L) == [j \in 1..Len(L) |-> IF L[j] = HdrLenient THEN HdrTight ELSE L[j]]

C5_LenientHeaderOpensRecord ==
    pc = "done" => items = parse_pool(TightForm(lines))

(***************************************************************************)
(* C6.  A record whose block is a header line followed, with no choice     *)
(* line in between, by a separator is emitted, with its four choice texts  *)
(* empty.                                                                  *)
(***************************************************************************)
ChoicelessBlock(L, h) ==
    /\ BlockEnd(L, h) <= Len(L)
    /\ IsSepLine(L[BlockEnd(L, h)])
    /\ \A j \in (h + 1)..(BlockEnd(L, h) - 1) : ~IsChoiceLine(L[j])

C6_ChoicelessRecordEmitted ==
    pc = "done" =>
       \A k \in 1..NumHeaders(lines) :
          ChoicelessBlock(lines, KthHeader(lines, k)) =>
             /\ k <= Len(items)
             /\ items[k].id = k
             /\ Choices(items[k]) = <<<<>>, <<>>, <<>>, <<>>>>

\* a header, a line of question text, a separator: the record is there
C6_Witness ==
    /\ pc = "done"
    /\ \E k \in 1..NumHeaders(lines) :
          /\ ChoicelessBlock(lines, KthHeader(lines, k))
          /\ BlockEnd(lines, KthHeader(lines, k)) > KthHeader(lines, k) + 1
          /\ items[k].question # <<>>
          /\ Choices(items[k]) = <<<<>>, <<>>, <<>>, <<>>>>

(***************************************************************************)
(* What the header and choice lines of the inputs say, read off the lines  *)
(* by hand: the codes, the answer letter and the text after the optional   *)
(* citation; the text of a choice with its whitespace runs collapsed.      *)
(***************************************************************************)
HeaderExpect(ln) ==
    CASE ln = HdrFull ->
            [subelement |-> <<"1">>, group_index |-> <<"A">>,
             group_number |-> <<"0", "1">>, answer |-> <<"D">>,
             text |-> <<"W", "h", "a", "t", " ", "i", "s", " ", "h", "a", "m",
                        " ", "r", "a", "d", "i", "o", "?">>]
      [] ln = HdrBare ->
            [subelement |-> <<"2">>, group_index |-> <<"B">>,
             group_number |-> <<"0", "3">>, answer |-> <<"A">>,
             text |-> <<>>]
      [] ln = HdrWs ->
            [subelement |-> <<"3">>, group_index |-> <<"C">>,
             group_number |-> <<"1", "2">>, answer |-> <<"B">>,
             text |-> <<"a", "n", " ", " ", "e", "x", "-">>]

ChoiceExpect(ln) ==
    CASE ln = ChoiceA -> <<"x">>
      [] ln = ChoiceB -> <<"y">>
      [] ln = ChoiceC -> <<"z">>
      [] ln = ChoiceD -> <<"w">>
      [] ln = ChoiceWs -> <<"t", "w", "o", " ", "s", "p">>
      [] ln = ChoiceBare -> <<>>

\* the text of a choice line after its marker, trimmed
ChoiceLineText(ln) == strip(SubSeq(lstrip(ln), 3, Len(lstrip(ln))))
ChoiceLetter(ln) == lstrip(ln)[1]

IsPlainText(ln) ==
    ~IsHeaderLine(ln) /\ ~IsChoiceLine(ln) /\ ~IsSepLine(ln) /\ strip(ln) # <<>>

\* a header, three lines of text, the choice lines A, B, C, D, a separator
IsWholeBlock(L) ==
    /\ Len(L) = 9
    /\ IsHeaderLine(L[1])
    /\ \A j \in 2..4 : IsPlainText(L[j])
    /\ \A j \in 5..8 : IsChoiceLine(L[j])
    /\ <<ChoiceLetter(L[5]), ChoiceLetter(L[6]), ChoiceLetter(L[7]),
         ChoiceLetter(L[8])>> = <<"A", "B", "C", "D">>
    /\ IsSepLine(L[9])

\* two non-empty trimmed fragments put together: a space between them, unless
\* the first ends with a hyphen and the second begins lowercase
Joined(a, b) ==
    IF a[Len(a)] = "-" /\ b[1] \in Lower
    THEN SubSeq(a, 1, Len(a) - 1) \o b
    ELSE a \o <<" ">> \o b

(***************************************************************************)
(* C7 as stated.  For a block of a header, three lines of text, the choice *)
(* lines A. B. C. D. and a separator, the question text is the three lines *)
(* joined by single spaces and each choice text is the text of its line.   *)
(***************************************************************************)
C7_QuestionIsSpaceJoined ==
    (pc = "done" /\ IsWholeBlock(lines)) =>
       /\ Len(items) = 1
       /\ items[1].question =
             lines[2] \o <<" ">> \o lines[3] \o <<" ">> \o lines[4]
       /\ \A c \in 1..4 : Choices(items[1])[c] = ChoiceLineText(lines[4 + c])

(***************************************************************************)
(* C7 amended.  For such a block the question text is the header's         *)
(* trailing text (when there is some) and the three lines, trimmed, put    *)
(* together in order with a single space, except that a fragment ending    *)
(* with a hyphen and followed by a line beginning lowercase loses the      *)
(* hyphen and is joined with no space; each choice text is the trimmed     *)
(* text of its own line with its whitespace runs collapsed.                *)
(***************************************************************************)
C7_QuestionIsJoinedText ==
    (pc = "done" /\ IsWholeBlock(lines)) =>
       LET head == HeaderExpect(lines[1]).text
           body == Joined(Joined(strip(lines[2]), strip(lines[3])), strip(lines[4]))
           first == IF head = <<>> THEN strip(lines[2])
                    ELSE Joined(head, strip(lines[2]))
       IN  /\ Len(items) = 1
           /\ items[1].question =
                 Joined(Joined(first, strip(lines[3])), strip(lines[4]))
           /\ head = <<>> => items[1].question = body
           /\ \A c \in 1..4 : Choices(items[1])[c] = ChoiceExpect(lines[4 + c])

\* a whole block whose first line of text ends with a hyphen and whose second
\* begins lowercase, parsed
C7_Witness ==
    /\ pc = "done"
    /\ IsWholeBlock(lines)
    /\ lines[2] = PlainHyphen
    /\ lines[3] = PlainLower
    /\ lines[6] = ChoiceWs
    /\ Len(items) = 1

(***************************************************************************)
(* C8.  A header line yields a record with the digit, the letter, the two  *)
(* digits and the parenthesized letter of its token; the bracketed         *)
(* citation is discarded and the trailing text seeds the question text, of *)
(* which it is the first fragment.                                         *)
(***************************************************************************)
DropHyphen(s) == IF s # <<>> /\ s[Len(s)] = "-" THEN SubSeq(s, 1, Len(s) - 1) ELSE s

C8_HeaderFields ==
    /\ (pc = "question" /\ i >= 1 /\ IsHeaderLine(lines[i])) =>
          LET e == HeaderExpect(lines[i])
          IN  /\ q_parts = IF e.text = <<>> THEN <<>> ELSE <<e.text>>
              /\ rec.subelement = e.subelement
              /\ rec.group_index = e.group_index
              /\ rec.group_number = e.group_number
              /\ rec.answer = e.answer
    /\ pc = "done" =>
          \A k \in 1..NumHeaders(lines) :
             LET h == KthHeader(lines, k)
                 e == HeaderExpect(lines[h])
             IN  /\ k <= Len(items)
                 /\ items[k].subelement = e.subelement
                 /\ items[k].group_index = e.group_index
                 /\ items[k].group_number = e.group_number
                 /\ items[k].answer = e.answer
                 /\ IsPrefix(DropHyphen(e.text), items[k].question)
                 /\ (\A j \in (h + 1)..(BlockEnd(lines, h) - 1) : ~IsPlainText(lines[j]))
                       => items[k].question = e.text

\* "E1A01 (D) [97.1] What is ham radio?" and a further line of question text
C8_Witness ==
    /\ pc = "done"
    /\ Len(lines) >= 2
    /\ lines[1] = HdrFull
    /\ IsPlainText(lines[2])
    /\ Len(items) >= 1
    /\ items[1].answer = <<"D">>
    /\ Len(items[1].question) > Len(HeaderExpect(HdrFull).text)

(***************************************************************************)
(* C9 as stated.  dehyphen_join(acc, new) is: new trimmed when acc is      *)
(* empty; acc without its trailing hyphen directly followed by new when    *)
(* acc ends with a hyphen and new begins lowercase; acc, one space and new *)
(* trimmed in every other case.                                            *)
(***************************************************************************)
C9_JoinAsStated ==
    jout # None =>
       jout[1] = IF jprev = <<>> THEN strip(jnxt)
                 ELSE IF jprev[Len(jprev)] = "-" /\ jnxt # <<>> /\ jnxt[1] \in Lower
                      THEN SubSeq(jprev, 1, Len(jprev) - 1) \o jnxt
                      ELSE jprev \o <<" ">> \o strip(jnxt)

(***************************************************************************)
(* C9 amended.  As stated, except that in the third case the result is     *)
(* acc, one space and new trimmed with the whitespace at both ends of that *)
(* result removed: acc trimmed (no space added) when new is empty or all   *)
(* whitespace, new trimmed when acc is all whitespace, and otherwise acc   *)
(* without its leading whitespace, one space and new trimmed.              *)
(***************************************************************************)
C9_JoinTrimmed ==
    jout # None =>
       jout[1] = IF jprev = <<>> THEN strip(jnxt)
                 ELSE IF jprev[Len(jprev)] = "-" /\ jnxt # <<>> /\ jnxt[1] \in Lower
                      THEN SubSeq(jprev, 1, Len(jprev) - 1) \o jnxt
                      ELSE IF strip(jnxt) = <<>> THEN strip(jprev)
                           ELSE IF strip(jprev) = <<>> THEN strip(jnxt)
                           ELSE lstrip(jprev) \o <<" ">> \o strip(jnxt)

\* "base-" joined with "ball extra" has returned "baseball extra"
C9_Witness ==
    /\ jprev = PlainHyphen
    /\ jnxt = PlainLower
    /\ jout = Some(<<"b", "a", "s", "e", "b", "a", "l", "l", " ", "e", "x", "t", "r", "a">>)

(***************************************************************************)
(* C10.  Malformed content is never fatal: whatever the input, the parser  *)
(* has a step to take in every state short of its return (no line leaves   *)
(* it without a handler), and an input with no header line returns no      *)
(* record.                                                                 *)
(***************************************************************************)
\* some action of Next is enabled: each is its guard and an assignment
HasStep ==
    \/ SkipGuard(lines, Cur)
    \/ OpenGuard(lines, Cur)
    \/ QuestionGuard(lines, Cur)
    \/ EndQuestionGuard(lines, Cur)
    \/ ChoiceGuard(lines, Cur)
    \/ ContinuationGuard(lines, Cur)
    \/ SealGuard(lines, Cur)
    \/ ReturnGuard(lines, Cur)

C10_NeverFatal ==
    /\ pc \in {"seek", "question", "choices", "done"}
    /\ pc # "done" => HasStep
    /\ (pc = "done" /\ HeaderIdx(lines) = {}) => items = <<>>

\* an input of a choice line, a separator and a line of text, returned empty
C10_Witness ==
    /\ pc = "done"
    /\ Len(lines) = 3
    /\ HeaderIdx(lines) = {}
    /\ \E j \in 1..3 : IsChoiceLine(lines[j])
    /\ \E j \in 1..3 : IsSepLine(lines[j])
    /\ \E j \in 1..3 : IsPlainText(lines[j])
    /\ items = <<>>

(***************************************************************************)
(* C14.  Collapsing whitespace runs is idempotent on every emitted field:  *)
(* collapsing the question text or a choice text a second time gives what  *)
(* collapsing it once gives, the collapsed text holds no whitespace run,   *)
(* and the choice texts, which the parser has collapsed, are left as they  *)
(* are.                                                                    *)
(***************************************************************************)
C14_CollapseIdempotent ==
    \A k \in 1..Len(items) :
        /\ sub_ws2(sub_ws2(items[k].question)) = sub_ws2(items[k].question)
        /\ NoWhitespaceRun(sub_ws2(items[k].question))
        /\ \A c \in 1..4 :
              /\ sub_ws2(sub_ws2(Choices(items[k])[c])) = sub_ws2(Choices(items[k])[c])
              /\ sub_ws2(Choices(items[k])[c]) = Choices(items[k])[c]

\* a record whose question text holds a run of three whitespace characters
\* and whose choice B was written with runs of two
C14_Witness ==
    /\ pc = "done"
    /\ Len(items) = 1
    /\ \E j \in 1..(Len(items[1].question) - 2) :
          \A d \in 0..2 : IsSpace(items[1].question[j + d])
    /\ sub_ws2(items[1].question) # items[1].question
    /\ \E j \in 1..Len(lines) : lines[j] = ChoiceWs
    /\ items[1].answer_b = ChoiceExpect(ChoiceWs)

(***************************************************************************)
(* The fragments a block gives one choice letter, read off its lines j to  *)
(* e - 1 in order: a choice line of the letter with text of its own adds   *)
(* that text as a new fragment; a line of text coming while the letter is  *)
(* the latest marker seen is put onto the letter's last fragment (or       *)
(* becomes its first).  cur is the latest marker seen, acc the fragments   *)
(* so far.                                                                 *)
(***************************************************************************)
RECURSIVE LetterFrags(_, _, _, _, _, _)
LetterFrags(L, j, e, X, cur, acc) ==
    IF j >= e THEN acc
    ELSE IF IsChoiceLine(L[j])
         THEN LetterFrags(L, j + 1, e, X, ChoiceLetter(L[j]),
                  IF ChoiceLetter(L[j]) = X /\ ChoiceLineText(L[j]) # <<>>
                  THEN Append(acc, ChoiceLineText(L[j]))
                  ELSE acc)
         ELSE LetterFrags(L, j + 1, e, X, cur,
                  IF cur = X /\ strip(L[j]) # <<>>
                  THEN IF acc = <<>> THEN <<strip(L[j])>>
                       ELSE [acc EXCEPT ![Len(acc)] = Joined(@, strip(L[j]))]
                  ELSE acc)

\* the fragments in order with single spaces between them, runs collapsed
FragsText(frags) == sub_ws2(join_space(frags))

\* the positions in the block of header h of the choice lines of letter X
LetterLines(L, h, X) ==
    {j \in (h + 1)..(BlockEnd(L, h) - 1) : IsChoiceLine(L[j]) /\ ChoiceLetter(L[j]) = X}

LetterOf(c) == <<"A", "B", "C", "D">>[c]

(***************************************************************************)
(* C15 as stated.  A choice line starts its letter's text afresh: the      *)
(* emitted text of a letter is what its latest choice line and the lines   *)
(* of text after it give, and nothing of an earlier choice line of the     *)
(* same letter is kept.                                                    *)
(***************************************************************************)
C15_LatestOccurrenceOnly ==
    pc = "done" =>
       \A k \in 1..NumHeaders(lines) : \A c \in 1..4 :
          LET h == KthHeader(lines, k)
              occ == LetterLines(lines, h, LetterOf(c))
          IN  Choices(items[k])[c] =
                 IF occ = {} THEN <<>>
                 ELSE FragsText(LetterFrags(lines, MaxOf(occ), BlockEnd(lines, h),
                                            LetterOf(c), "None", <<>>))

(***************************************************************************)
(* C15 amended.  A choice line makes its letter current and adds its text, *)
(* when it has some, as a new fragment after what the letter has already   *)
(* accumulated: when a letter's marker comes more than once in a block,    *)
(* the emitted text is the text of every occurrence in input order, the    *)
(* fragments separated by single spaces, and a line of text that follows a *)
(* marker with no text of its own is joined onto the letter's earlier      *)
(* text.                                                                   *)
(***************************************************************************)
C15_EveryOccurrenceKept ==
    pc = "done" =>
       \A k \in 1..NumHeaders(lines) : \A c \in 1..4 :
          LET h == KthHeader(lines, k)
          IN  Choices(items[k])[c] =
                 FragsText(LetterFrags(lines, h + 1, BlockEnd(lines, h),
                                       LetterOf(c), "None", <<>>))

\* "A. yes-", "ball extra", "A. x", "Word": the text of A is all four
C15_Witness ==
    /\ pc = "done"
    /\ lines = <<HdrBare, Blank, ChoiceHyph, PlainLower, ChoiceA, PlainUpper, Sep>>
    /\ Len(items) = 1
    /\ items[1].answer_a =
          <<"y", "e", "s", "b", "a", "l", "l", " ", "e", "x", "t", "r", "a", " ",
            "x", " ", "W", "o", "r", "d">>

(***************************************************************************)
(* C18.  The first choice line of a block closes its question text: in the *)
(* choices the question text of the open record is already the one that is *)
(* emitted, which is the question text of the block cut before its first   *)
(* choice line (the header's trailing text and the lines of text before    *)
(* that choice line); every line of text after it goes to the letter of    *)
(* the latest choice line.                                                 *)
(***************************************************************************)
\* the first choice line of the block of header h, or the end of the block
FirstChoice(L, h) ==
    MinOf({j \in (h + 1)..(BlockEnd(L, h) - 1) : IsChoiceLine(L[j])}
          \cup {BlockEnd(L, h)})

QuestionOfCut(L, h) == parse_pool(SubSeq(L, h, FirstChoice(L, h) - 1))[1].question

C18_QuestionClosedByFirstChoice ==
    /\ pc = "choices" => rec.question = QuestionOfCut(lines, KthHeader(lines, rec.id))
    /\ pc = "done" =>
          \A k \in 1..NumHeaders(lines) :
             LET h == KthHeader(lines, k)
             IN  /\ items[k].question = QuestionOfCut(lines, h)
                 /\ \A c \in 1..4 :
                       Choices(items[k])[c] =
                          FragsText(LetterFrags(lines, FirstChoice(lines, h),
                                                BlockEnd(lines, h), LetterOf(c),
                                                "None", <<>>))

\* "base-" before the first choice line, "ball extra" after it: the question
\* text is "base-" and "ball extra" is in the text of A
C18_Witness ==
    /\ pc = "done"
    /\ lines = <<HdrBare, PlainHyphen, ChoiceA, PlainLower, ChoiceB, PlainUpper, Sep>>
    /\ Len(items) = 1
    /\ items[1].question = PlainHyphen
    /\ items[1].answer_a = <<"x", " ", "b", "a", "l", "l", " ", "e", "x", "t", "r", "a">>
    /\ items[1].answer_b = <<"y", " ", "W", "o", "r", "d">>

(***************************************************************************)
(* C20.  Parsing is one forward pass that finishes: no step moves the      *)
(* cursor backwards or past the end of the input; in every state short of  *)
(* the return the parser has a step, and that step moves the cursor on or, *)
(* leaving it in place, moves to a later phase of the same iteration       *)
(* (question, choices, seek, return); a skipped line moves the cursor on   *)
(* by one; once a record is open the cursor is past its header line, so    *)
(* the outer-loop iteration that opened it ends further on than it began,  *)
(* also when it ends on a header left to be read again; and parse_pool     *)
(* eventually returns, with the cursor at the end of the input.            *)
(***************************************************************************)
Rank(p) == CASE p = "done" -> 0 [] p = "seek" -> 1 [] p = "choices" -> 2
             [] p = "question" -> 3

MovesOn(s, t) == t.i > s.i \/ (t.i = s.i /\ Rank(t.pc) < Rank(s.pc))

C20_ForwardPassTerminates ==
    /\ [][i' >= i]_vars
    /\ [](i <= Len(lines))
    /\ [](pc # "done" => (HasStep /\ MovesOn(Cur, Step(lines, Cur))))
    /\ [][(pc = "seek" /\ pc' = "seek") => i' = i + 1]_vars
    /\ [][(pc = "choices" /\ pc' = "seek") => i' >= KthHeader(lines, rec.id)]_vars
    /\ [](pc \in {"question", "choices"} => i >= KthHeader(lines, rec.id))
    /\ <>(pc = "done" /\ i = Len(lines))

\* returned after a record was sealed by the header of the next, which was
\* then read again and opened the second record
C20_Witness ==
    /\ pc = "done"
    /\ i = Len(lines)
    /\ Len(lines) = 3
    /\ IsHeaderLine(lines[1]) /\ IsChoiceLine(lines[2]) /\ IsHeaderLine(lines[3])
    /\ Len(items) = 2

(***************************************************************************)
(* C16.  A line met while no record is open is discarded whatever it is,   *)
(* short of a header: wherever the parser is between records, the input    *)
(* with a line of text, a blank line, a choice line or a separator put in  *)
(* at the cursor, and the input with the line at the cursor taken out when *)
(* it is no header, give the same records as the input itself.             *)
(***************************************************************************)
InsertAt(L, j, x) == SubSeq(L, 1, j - 1) \o <<x>> \o SubSeq(L, j, Len(L))
RemoveAt(L, j) == SubSeq(L, 1, j - 1) \o SubSeq(L, j + 1, Len(L))

GapLines == {PlainLower, Blank, ChoiceA, ChoiceBare, Sep}

\* no record is open when the line at position j is read: no header comes
\* before it, or the block of the last header before it was closed by a
\* separator before it
InGap(L, j) ==
    LET before == {h \in HeaderIdx(L) : h < j}
    IN  before = {} \/ BlockEnd(L, MaxOf(before)) < j

C16_LinesBetweenRecordsDiscarded ==
    (pc # "done" /\ InGap(lines, i + 1)) =>
       /\ pc = "seek"
       /\ \A x \in GapLines :
             parse_pool(InsertAt(lines, i + 1, x)) = parse_pool(lines)
       /\ (i < Len(lines) /\ ~IsHeaderLine(lines[i + 1])) =>
             parse_pool(RemoveAt(lines, i + 1)) = parse_pool(lines)

\* after the separator that closed the record, with a choice line at the cursor
C16_Witness ==
    /\ pc = "seek"
    /\ lines = <<HdrBare, Sep, ChoiceHyph>>
    /\ i = 2
    /\ InGap(lines, 3)
    /\ Len(items) = 1
    /\ Len(parse_pool(InsertAt(lines, 3, Sep))) = 1
    /\ Len(parse_pool(RemoveAt(lines, 3))) = 1

(***************************************************************************)
(* C17.  An empty or all-whitespace line inside an open record is ignored  *)
(* and does not end the accumulation: wherever the parser is inside a      *)
(* record (in the question or in the choices, the end of the input         *)
(* included), the input with such a line put in at the cursor gives the    *)
(* same records, hyphen repair across the new line included.               *)
(***************************************************************************)
BlankLines == {<<>>, Blank, <<"\t">>}

C17_BlankLinesIgnored ==
    pc \in {"question", "choices"} =>
       \A b \in BlankLines : parse_pool(InsertAt(lines, i + 1, b)) = parse_pool(lines)

\* in the question after "base-", with "ball extra" at the cursor: the blank
\* line goes between the two and the text is still "baseball extra"
C17_Witness ==
    /\ pc = "question"
    /\ i = 2
    /\ lines = <<HdrBare, PlainHyphen, PlainLower>>
    /\ q_parts = <<PlainHyphen>>
    /\ parse_pool(<<HdrBare, PlainHyphen, Blank, PlainLower>>)[1].question =
          <<"b", "a", "s", "e", "b", "a", "l", "l", " ", "e", "x", "t", "r", "a">>

(***************************************************************************)
(* C19.  No line matches more than one of the header, choice and separator *)
(* patterns, so the class of a line is the same in whatever order the      *)
(* patterns are tried.                                                     *)
(***************************************************************************)
C19_ClassificationUnambiguous ==
    /\ Cardinality({c \in Patterns : Matches(cline, c)}) <= 1
    /\ cclass # None =>
          /\ \A o1 \in TestOrders : \A o2 \in TestOrders : cclass[1][o1] = cclass[1][o2]
          /\ \A c \in Patterns :
                Matches(cline, c) => \A o \in TestOrders : cclass[1][o] = c

\* "A. x ~~", a choice line that ends like a separator, classified as a choice
C19_Witness ==
    /\ cline = ChoiceA \o SepWs
    /\ cclass # None
    /\ \A o \in TestOrders : cclass[1][o] = "choice"

(***************************************************************************)
(* C11.  "<letter> submit" given while questions of the exam have no       *)
(* answer: the question current when the answer is taken is the first of   *)
(* selected_ids without an answer; the command records the submitted       *)
(* letter, and whether it is the correct one, for that question and for no *)
(* other, and leaves the entries of the others as they are; when questions *)
(* are still left after it, the first of them is the current one at the    *)
(* next prompt.                                                            *)
(***************************************************************************)
FirstUnanswered(c) == c.selected_ids[MinOf(Unanswered(c))]

C11_SubmitAnswersLastShown ==
    /\ [][(rpc = "submit" /\ rpc' = "answered" /\ Unanswered(current_exam) # {}) =>
             LET q == FirstUnanswered(current_exam)
             IN  /\ current_exam.last_shown_id = Some(q)
                 /\ DOMAIN current_exam'.answered =
                        (DOMAIN current_exam.answered) \cup {q}
                 /\ current_exam'.answered[q] =
                        [selected |-> submitted[1],
                         correct |-> (submitted[1] = q_by_id(q).answer[1])]
                 /\ \A id \in DOMAIN current_exam.answered :
                        current_exam'.answered[id] = current_exam.answered[id]
                 /\ current_exam'.selected_ids = current_exam.selected_ids]_vars
    /\ [][(rpc = "answered" /\ rpc' = "idle" /\ Unanswered(current_exam') # {}) =>
             /\ current_exam'.last_shown_id = Some(FirstUnanswered(current_exam'))
             /\ current_exam'.answered = current_exam.answered]_vars
    /\ []((AtPrompt /\ Unanswered(current_exam) # {}) =>
             current_exam.last_shown_id = Some(FirstUnanswered(current_exam)))

\* at the prompt after the first of two questions was answered: the second
\* is the current one
C11_Witness ==
    /\ rpc = "idle"
    /\ current_exam.selected_ids = <<2, 3>>
    /\ DOMAIN current_exam.answered = {2}
    /\ current_exam.answered[2] = [selected |-> "C", correct |-> TRUE]
    /\ current_exam.last_shown_id = Some(3)

(***************************************************************************)
(* C12.  start_new_exam selects one question of the pool from each group   *)
(* of the pool and no other, and the new exam has no progress: answered,   *)
(* presented_ids, correct_ids and wrong_ids are empty, done is false and   *)
(* no question is current; the stats, in the session and in the state      *)
(* file, are those from before the call.                                   *)
(***************************************************************************)
PoolIds == {Pool[k].id : k \in 1..Len(Pool)}

OnePerGroup(sel) ==
    /\ \A r \in 1..Len(sel) : sel[r] \in PoolIds
    /\ Len(sel) = Cardinality(GroupKeys)
    /\ \A key \in GroupKeys :
          Cardinality({r \in 1..Len(sel) : group_key(q_by_id(sel[r])) = key}) = 1

C12_NewExamOnePerGroup ==
    [][(rpc # "new_test" /\ rpc' = "new_test") =>
          /\ OnePerGroup(current_exam'.selected_ids)
          /\ current_exam'.answered = EmptyDict
          /\ current_exam'.presented_ids = <<>>
          /\ current_exam'.correct_ids = <<>>
          /\ current_exam'.wrong_ids = <<>>
          /\ current_exam'.done = FALSE
          /\ current_exam'.last_shown_id = None
          /\ stats' = stats
          /\ state_file'[1].stats = Stats_to_dict(stats)
          /\ state_file # None => state_file'[1].stats = state_file[1].stats]_vars

\* a new exam just started after one that was finished
C12_Witness ==
    /\ rpc = "new_test"
    /\ Len(stats.history) = 1
    /\ DOMAIN stats.subelements # {}
    /\ current_exam.selected_ids = <<2, 3>>
    /\ current_exam.answered = EmptyDict
    /\ current_exam.presented_ids = <<>>

(***************************************************************************)
(* C13.  The snapshot round-trips: in every state of the session, loading  *)
(* the text dump_state_base64 returns gives back the stats and the current *)
(* exam as they are (the keys of answered integers again) and the same     *)
(* state file; and after a snapshot given out earlier is loaded, the       *)
(* session is the one the snapshot was taken of.                           *)
(***************************************************************************)
C13_SnapshotRoundTrip ==
    /\ LET d == dump_state_base64(Sess)
           r == load_state_base64(d.sess, d.b64).sess
       IN  /\ r.stats = stats
           /\ r.current = current_exam
           /\ r.file = d.sess.file
           /\ state_file # None => d.sess.file = state_file
    /\ rpc = "restored" =>
          /\ stats = dumped[1].stats
          /\ current_exam = dumped[1].current
          /\ state_file = Some(b64decode(dumped[1].b64))

\* the snapshot of a finished exam, loaded back
C13_Witness ==
    /\ rpc = "restored"
    /\ current_exam.done
    /\ DOMAIN current_exam.answered = {1, 3}
    /\ DOMAIN state_file[1].current.answered = {<<"1">>, <<"3">>}
    /\ Len(stats.history) = 1

(***************************************************************************)
(* C21.  An exam is finalized at most once: while the current exam is done *)
(* (its last question answered, its summary produced, no "new test"        *)
(* since), no step of a "<letter> submit" command adds an entry to         *)
(* stats.history or changes the right/wrong counts of stats.subelements.   *)
(* (chat_repl calls finalize whenever nothing is left to answer, and       *)
(* finalize does not look at done.)                                        *)
(***************************************************************************)
InSubmit == rpc \in {"submit", "answered"} \/ rpc' \in {"submit", "answered"}

C21_FinalizedAtMostOnce ==
    [][(current_exam.done /\ InSubmit) =>
          /\ stats'.history = stats.history
          /\ stats'.subelements = stats.subelements]_vars

(***************************************************************************)
(* C22.  The current exam, as the state file holds it and as the session   *)
(* holds it, is consistent: correct_ids and wrong_ids have no duplicates   *)
(* and no id in common, together they are exactly the keys of answered,    *)
(* every answered id is one of selected_ids, and an id is in correct_ids   *)
(* exactly when its answered entry says correct.                           *)
(***************************************************************************)
NoDuplicates(q) == \A a \in 1..Len(q) : \A b \in 1..Len(q) : q[a] = q[b] => a = b

\* ids the keys of answered as integers, entry(id) the entry of id
Consistent(c, ids, entry(_)) ==
    /\ NoDuplicates(c.correct_ids)
    /\ NoDuplicates(c.wrong_ids)
    /\ Elems(c.correct_ids) \cap Elems(c.wrong_ids) = {}
    /\ Elems(c.correct_ids) \cup Elems(c.wrong_ids) = ids
    /\ ids \subseteq Elems(c.selected_ids)
    /\ \A id \in ids : (id \in Elems(c.correct_ids)) <=> entry(id).correct

C22_CurrentExamConsistent ==
    /\ LET c == current_exam
           entry(id) == c.answered[id]
       IN  Consistent(c, DOMAIN c.answered, entry)
    /\ state_file # None =>
          LET c == state_file[1].current
              entry(id) == c.answered[str_of(id)]
          IN  Consistent(c, {int_of(t) : t \in DOMAIN c.answered}, entry)

\* at the prompt, one question answered wrongly and one correctly
C22_Witness ==
    /\ AtPrompt
    /\ state_file # None
    /\ state_file[1].current.selected_ids = <<2, 3>>
    /\ state_file[1].current.wrong_ids = <<2>>
    /\ state_file[1].current.correct_ids = <<3>>
    /\ DOMAIN state_file[1].current.answered = {<<"2">>, <<"3">>}

(***************************************************************************)
(* C23.  load_state_base64 given a text that does not decode to a JSON     *)
(* object with both the keys "stats" and "current" raises an error and     *)
(* leaves the state file, the stats and the current exam of the session as *)
(* they were before the call: in every state of the session, for every     *)
(* such text; and at the prompt after such a call the state file, the      *)
(* stats and the current exam are those the session was built with.        *)
(***************************************************************************)
C23_InvalidLoadRejected ==
    /\ [](\A b64 \in InvalidTexts :
             LET r == load_state_base64(Sess, b64)
             IN  r.raised /\ r.sess = Sess)
    /\ [][rpc' = "load_failed" =>
             LET S0 == ExamSession(state_file)
             IN  /\ state_file' = S0.file
                 /\ stats' = S0.stats
                 /\ current_exam' = S0.current
                 /\ state_file # None =>
                       /\ state_file' = state_file
                       /\ stats' = stats
                       /\ current_exam' = current_exam]_vars

\* an invalid text was given in the middle of an exam: the exam is intact
C23_Witness ==
    /\ rpc = "load_failed"
    /\ current_exam.selected_ids = <<1, 3>>
    /\ DOMAIN current_exam.answered = {1}
    /\ current_exam.last_shown_id = Some(3)
    /\ state_file[1].current.last_shown_id = Some(3)
    /\ DOMAIN state_file[1].current.answered = {<<"1">>}

====
